---- MODULE Spec2Model ----
(***************************************************************************)
(* Model of app.py, the Flask backend of CEA (Circular Economy AI).        *)
(*                                                                         *)
(* Text is a sequence of one-character strings, so that str.strip,         *)
(* str.lower and the substring test of is_suspicious are computed and not  *)
(* assumed.  Index values (baseline, withCEA) are kept in tenths of an     *)
(* index point: every step of update_learning is a whole number of tenths  *)
(* (0.1 .. 0.5), so the decimal arithmetic of the code is exact here.      *)
(* Company revenues are kept in units of 10^-8, which holds r * 1.05^4     *)
(* exactly for the whole revenues the requests of the model carry.         *)
(***************************************************************************)
EXTENDS Integers, Sequences, FiniteSets, TLC

VARIABLES
    CHART_DATA,        \* app.py:18   sector -> record (baseline, withCEA in tenths)
    LEARNING_USAGE,    \* app.py:63   sector -> count
    ALERTS,            \* app.py:64   list of alert records
    COMPANIES,         \* app.py:67   company_id -> company record
    NEXT_COMPANY_ID,   \* app.py:68
    request,           \* the request (or direct call) handled last
    response,          \* the response it was given
    answered,          \* history: sector -> number of successful /api/cea answers
    issued,            \* history: the ids of the 201 responses of POST /api/companies, in order
    pc,                \* worker -> position inside api_companies (interleaved runs)
    local              \* worker -> the locals of its api_companies invocation

vars == <<CHART_DATA, LEARNING_USAGE, ALERTS, COMPANIES, NEXT_COMPANY_ID,
          request, response, answered, issued, pc, local>>

----------------------------------------------------------------------------
(* Bounds of the model *)

MaxSteps == 10
MaxCea == 2
MaxPosts == 3
MaxRacePosts == 3
MaxRequests == 3

----------------------------------------------------------------------------
(* Text *)

UpperCase == <<"A","B","C","D","E","F","G","H","I","J","K","L","M",
               "N","O","P","Q","R","S","T","U","V","W","X","Y","Z">>
LowerCase == <<"a","b","c","d","e","f","g","h","i","j","k","l","m",
               "n","o","p","q","r","s","t","u","v","w","x","y","z">>
Whitespace == {" ", "\t", "\n", "\r"}
Digits == <<"0","1","2","3","4","5","6","7","8","9">>

lower_char(c) ==
    IF \E k \in DOMAIN UpperCase : UpperCase[k] = c
    THEN LowerCase[CHOOSE k \in DOMAIN UpperCase : UpperCase[k] = c]
    ELSE c

upper_char(c) ==
    IF \E k \in DOMAIN LowerCase : LowerCase[k] = c
    THEN UpperCase[CHOOSE k \in DOMAIN LowerCase : LowerCase[k] = c]
    ELSE c

\* str.lower()
lower(text) == [k \in DOMAIN text |-> lower_char(text[k])]

\* str.upper()
upper(text) == [k \in DOMAIN text |-> upper_char(text[k])]

RECURSIVE lstrip(_)
lstrip(text) ==
    IF text # <<>> /\ Head(text) \in Whitespace THEN lstrip(Tail(text)) ELSE text

RECURSIVE rstrip(_)
rstrip(text) ==
    IF text # <<>> /\ text[Len(text)] \in Whitespace
    THEN rstrip(SubSeq(text, 1, Len(text) - 1))
    ELSE text

\* str.strip()
strip(text) == rstrip(lstrip(text))

\* word in text
contains(text, word) ==
    \E k \in 0..(Len(text) - Len(word)) : SubSeq(text, k + 1, k + Len(word)) = word

SUSPICIOUS_WORDS == <<
    <<"r","o","b">>, <<"s","t","e","a","l">>, <<"a","t","t","a","c","k">>,
    <<"b","o","m","b">>, <<"k","i","l","l">>, <<"h","u","r","t">>,
    <<"t","e","r","r","o","r">>, <<"h","a","c","k">>, <<"f","r","a","u","d">>,
    <<"b","r","i","b","e">> >>

is_suspicious(text) ==
    LET lowered == lower(text)
    IN  \E k \in DOMAIN SUSPICIOUS_WORDS : contains(lowered, SUSPICIOUS_WORDS[k])

----------------------------------------------------------------------------
(* The sector dataset *)

housing == <<"h","o","u","s","i","n","g">>
education == <<"e","d","u","c","a","t","i","o","n">>
healthcare == <<"h","e","a","l","t","h","c","a","r","e">>
infrastructure == <<"i","n","f","r","a","s","t","r","u","c","t","u","r","e">>
agriculture == <<"a","g","r","i","c","u","l","t","u","r","e">>
energy == <<"e","n","e","r","g","y">>
waste == <<"w","a","s","t","e">>

\* not a sector of the dataset
robotics == <<"r","o","b","o","t","i","c","s">>

YEARS == <<2023, 2024, 2025, 2026, 2027>>

\* An index series as written in the source, in tenths.
Tenths(series) == [k \in DOMAIN series |-> 10 * series[k]]

SectorRecord(label, baseline, withCEA, higherBetter) ==
    [label |-> label, baseline |-> Tenths(baseline), withCEA |-> Tenths(withCEA),
     higherBetter |-> higherBetter]

InitialChartData ==
    (housing :> SectorRecord("Projected Housing Stress Index (lower is better)",
                    <<72, 74, 75, 76, 77>>, <<72, 70, 67, 64, 60>>, FALSE))
    @@ (education :> SectorRecord("Projected Education Access & Quality Index (higher is better)",
                    <<65, 66, 67, 68, 68>>, <<65, 68, 71, 74, 77>>, TRUE))
    @@ (healthcare :> SectorRecord("Projected Healthcare Capacity Index (higher is better)",
                    <<60, 61, 61, 62, 62>>, <<60, 63, 66, 68, 70>>, TRUE))
    @@ (infrastructure :> SectorRecord("Infrastructure Efficiency Index (higher is better)",
                    <<58, 59, 59, 60, 61>>, <<58, 62, 66, 69, 72>>, TRUE))
    @@ (agriculture :> SectorRecord("Sustainable Agriculture Index (higher is better)",
                    <<55, 56, 57, 58, 59>>, <<55, 59, 63, 66, 70>>, TRUE))
    @@ (energy :> SectorRecord("Clean Energy Share Index (higher is better)",
                    <<50, 52, 53, 54, 55>>, <<50, 55, 60, 65, 70>>, TRUE))
    @@ (waste :> SectorRecord("Waste Diversion from Landfill Index (higher is better)",
                    <<40, 41, 42, 43, 44>>, <<40, 48, 55, 60, 65>>, TRUE))

Min(a, b) == IF a <= b THEN a ELSE b
Max(a, b) == IF a >= b THEN a ELSE b

\* dict.get(key, default)
Get(d, key, default) == IF key \in DOMAIN d THEN d[key] ELSE default

----------------------------------------------------------------------------
(* update_learning *)

base_step == 5      \* 0.5, in tenths
max_gap == 20       \* index points

\* The target of index k (1-based) of a sector record, in tenths.
Target(data, k) ==
    IF data.higherBetter
    THEN Min(100 * 10, data.baseline[k] + max_gap * 10)
    ELSE Max(0, data.baseline[k] - max_gap * 10)

\* step = base_step * float(i + 1) / len(withCEA), k = i + 1, in tenths
Step(data, k) == (base_step * k) \div Len(data.withCEA)

\* One pass of the loop body for index k: the new value of withCEA[k].
LearnAt(data, k) ==
    LET current == data.withCEA[k]
        target == Target(data, k)
        step == Step(data, k)
    IN  IF data.higherBetter
        THEN IF current < target THEN Min(target, current + step) ELSE current
        ELSE IF current > target THEN Max(target, current - step) ELSE current

\* The for loop of update_learning: every index reads and writes only itself.
LearnLoop(data) ==
    [data EXCEPT !.withCEA = [k \in DOMAIN data.withCEA |-> LearnAt(data, k)]]

\* Mutant of update_learning: the counter line runs before the membership test.
update_learning_CountsFirst(sector) ==
    /\ LEARNING_USAGE' =
            [s \in DOMAIN LEARNING_USAGE \cup {sector} |->
                IF s = sector THEN Get(LEARNING_USAGE, sector, 0) + 1
                ELSE LEARNING_USAGE[s]]
    /\ IF sector \notin DOMAIN CHART_DATA
       THEN UNCHANGED CHART_DATA
       ELSE CHART_DATA' = [CHART_DATA EXCEPT ![sector] = LearnLoop(CHART_DATA[sector])]

update_learning(sector) ==
    IF sector \notin DOMAIN CHART_DATA
    THEN UNCHANGED <<CHART_DATA, LEARNING_USAGE>>
    ELSE /\ LEARNING_USAGE' =
                [s \in DOMAIN LEARNING_USAGE \cup {sector} |->
                    IF s = sector THEN Get(LEARNING_USAGE, sector, 0) + 1
                    ELSE LEARNING_USAGE[s]]
         /\ CHART_DATA' = [CHART_DATA EXCEPT ![sector] = LearnLoop(CHART_DATA[sector])]

----------------------------------------------------------------------------
(* Initial state: the module-level assignments of app.py *)

Workers == {1, 2}

Init ==
    /\ CHART_DATA = InitialChartData
    /\ LEARNING_USAGE = [s \in DOMAIN InitialChartData |-> 0]
    /\ ALERTS = <<>>
    /\ COMPANIES = <<>>
    /\ NEXT_COMPANY_ID = 1
    /\ request = [op |-> "none"]
    /\ response = [status |-> 0]
    /\ answered = <<>>
    /\ issued = <<>>
    /\ pc = [w \in Workers |-> "idle"]
    /\ local = [w \in Workers |-> [op |-> "none"]]

----------------------------------------------------------------------------
(* JSON bodies: a function from the keys present to values.  A string     *)
(* value is [str |-> text], a number [num |-> n]; a key that is absent    *)
(* (or null) is outside the DOMAIN.                                       *)

Str(text) == [str |-> text]
Num(n) == [num |-> n]
IsStr(v) == DOMAIN v = {"str"}
IsNum(v) == DOMAIN v = {"num"}

\* Python truthiness of a JSON value: "" and 0 are false.
Truthy(v) == IF IsStr(v) THEN v.str # <<>> ELSE v.num # 0

\* data.get(key, "") for a body whose values are strings
GetText(data, key) == IF key \in DOMAIN data THEN data[key].str ELSE <<>>

----------------------------------------------------------------------------
(* generate_advice: the branch taken stands for its literal text *)

government == <<"g","o","v","e","r","n","m","e","n","t">>
business == <<"b","u","s","i","n","e","s","s">>

generate_advice(user_type, sector) ==
    IF sector = housing
    THEN IF user_type = government THEN "housing/government"
         ELSE IF user_type = business THEN "housing/business"
         ELSE "housing/other"
    ELSE IF sector = education THEN "education"
    ELSE IF sector = healthcare THEN "healthcare"
    ELSE IF sector = infrastructure THEN "infrastructure"
    ELSE IF sector = agriculture THEN "agriculture"
    ELSE IF sector = energy THEN "energy"
    ELSE IF sector = waste THEN "waste"
    ELSE "generic"

----------------------------------------------------------------------------
(* POST /api/cea *)

\* datetime.now().strftime("%H:%M:%S"): any time of day
Times == {"09:00:00", "23:59:59"}

\* Mutant of AppendAlert: ALERTS.insert(0, alert)
AppendAlert_Prepend(alert) == ALERTS' = <<alert>> \o ALERTS

\* ALERTS.append(alert)
AppendAlert(alert) == ALERTS' = Append(ALERTS, alert)

\* Lines 239-240: the problem text is empty.
CeaRejectEmpty ==
    /\ response' = [status |-> 400, body |-> [error |-> "Problem text is required."]]
    /\ UNCHANGED <<CHART_DATA, LEARNING_USAGE, ALERTS>>

\* Mutant of CeaRefuse: update_learning is called before the suspicion test,
\* so a refused request is counted too.
CeaRefuse_Counts(user_type, sector, problem) ==
    /\ \E now \in Times :
          AppendAlert([time |-> now, userType |-> user_type, sector |-> sector,
                       problem |-> problem])
    /\ response' = [status |-> 200,
                    body |-> [suspicious |-> TRUE,
                              message |-> "I cannot assist with harmful, violent, or illegal actions."]]
    /\ update_learning(sector)

\* Lines 242-252: the problem text is suspicious.
CeaRefuse(user_type, sector, problem) ==
    /\ \E now \in Times :
          AppendAlert([time |-> now, userType |-> user_type, sector |-> sector,
                       problem |-> problem])
    /\ response' = [status |-> 200,
                    body |-> [suspicious |-> TRUE,
                              message |-> "I cannot assist with harmful, violent, or illegal actions."]]
    /\ UNCHANGED <<CHART_DATA, LEARNING_USAGE>>

\* Lines 254-255: the sector is not a key of CHART_DATA.
CeaRejectSector(sector) ==
    /\ response' = [status |-> 400, body |-> [error |-> "Unknown sector", sector |-> sector]]
    /\ UNCHANGED <<CHART_DATA, LEARNING_USAGE, ALERTS>>

\* Lines 257-278: the learning step, then the answer read from the updated state.
CeaAnswer(user_type, sector, problem) ==
    /\ update_learning(sector)
    /\ LET d == CHART_DATA'[sector]
       IN  response' =
             [status |-> 200,
              body |-> [suspicious |-> FALSE,
                        header |-> <<upper(user_type), upper(sector)>>,
                        advice |-> generate_advice(user_type, sector),
                        problem |-> problem,
                        sector |-> sector,
                        userType |-> user_type,
                        years |-> YEARS,
                        baseline |-> d.baseline,
                        withCEA |-> d.withCEA,
                        learningUsage |-> LEARNING_USAGE'[sector],
                        label |-> d.label]]
    /\ UNCHANGED ALERTS

\* Mutant of api_cea: the sector is validated before the suspicion test.
api_cea_SectorFirst(data) ==
    LET user_type == lower(GetText(data, "userType"))
        sector == lower(GetText(data, "sector"))
        problem == strip(GetText(data, "problem"))
    IN  IF problem = <<>> THEN CeaRejectEmpty
        ELSE IF sector \notin DOMAIN CHART_DATA THEN CeaRejectSector(sector)
        ELSE IF is_suspicious(problem) THEN CeaRefuse(user_type, sector, problem)
        ELSE CeaAnswer(user_type, sector, problem)

\* Lines 232-278
api_cea(data) ==
    LET user_type == lower(GetText(data, "userType"))
        sector == lower(GetText(data, "sector"))
        problem == strip(GetText(data, "problem"))
    IN  IF problem = <<>> THEN CeaRejectEmpty
        ELSE IF is_suspicious(problem) THEN CeaRefuse(user_type, sector, problem)
        ELSE IF sector \notin DOMAIN CHART_DATA THEN CeaRejectSector(sector)
        ELSE CeaAnswer(user_type, sector, problem)

\* GET /api/alerts
api_alerts ==
    /\ response' = [status |-> 200, body |-> [alerts |-> ALERTS]]
    /\ UNCHANGED <<CHART_DATA, LEARNING_USAGE, ALERTS>>

----------------------------------------------------------------------------
(* The requests of the model *)

\* The number of learning steps taken so far, over all sectors.
RECURSIVE SumOver(_, _)
SumOver(f, S) ==
    IF S = {} THEN 0
    ELSE LET x == CHOOSE x \in S : TRUE IN f[x] + SumOver(f, S \ {x})

TotalUsage == SumOver(LEARNING_USAGE, DOMAIN LEARNING_USAGE)

\* Partial bodies: every way of giving or leaving out each key.
Bodies(keys, values) ==
    UNION { [present -> values] : present \in SUBSET keys }

UserTypeTexts == { <<"G","o","v","e","r","n","m","e","n","t">> }
SectorTexts == { <<"W","a","s","t","e">>, housing, robotics }
ProblemTexts == { <<" ">>, <<" ","R","O","B"," ">>, <<"p","l","a","n","\n">> }

CeaBodies ==
    { b \in Bodies({"userType", "sector", "problem"},
                   {Str(t) : t \in UserTypeTexts \cup SectorTexts \cup ProblemTexts}) :
        /\ "userType" \in DOMAIN b => b["userType"].str \in UserTypeTexts
        /\ "sector" \in DOMAIN b => b["sector"].str \in SectorTexts
        /\ "problem" \in DOMAIN b => b["problem"].str \in ProblemTexts }

\* The history of answers, kept from the responses alone.
Count(h, s) == IF s \in DOMAIN h THEN h[s] ELSE 0

Answered(h, resp) ==
    IF resp.status = 200 /\ "suspicious" \in DOMAIN resp.body /\ ~resp.body.suspicious
    THEN [s \in DOMAIN h \cup {resp.body.sector} |->
            IF s = resp.body.sector THEN Count(h, s) + 1 ELSE h[s]]
    ELSE h

PostCeaOf(bodies) ==
    \E data \in bodies :
        /\ TotalUsage + Len(ALERTS) < MaxCea
        /\ api_cea(data)
        /\ request' = [op |-> "POST /api/cea", data |-> data]
        /\ answered' = Answered(answered, response')
        /\ UNCHANGED <<COMPANIES, NEXT_COMPANY_ID, issued, pc, local>>

GetAlerts ==
    /\ api_alerts
    /\ request' = [op |-> "GET /api/alerts"]
    /\ UNCHANGED <<COMPANIES, NEXT_COMPANY_ID, answered, issued, pc, local>>

PostCea == PostCeaOf(CeaBodies)

NextCea == PostCea \/ GetAlerts

SpecCea == Init /\ [][NextCea]_vars

----------------------------------------------------------------------------
(* float(text), on the texts of the model: float() strips whitespace,    *)
(* takes a sign, and reads decimal digits or "nan" in any case.  Other    *)
(* float syntax (fractions, exponents, infinities) is not among the       *)
(* requests of the model.  The result is ValueError, NaN or a whole       *)
(* number.                                                                *)

ValueError == [error |-> "ValueError"]
NaN == [nan |-> TRUE]
Float(n) == [units |-> n]
IsNumber(x) == DOMAIN x = {"units"}

IsDigit(c) == \E k \in DOMAIN Digits : Digits[k] = c
DigitValue(c) == (CHOOSE k \in DOMAIN Digits : Digits[k] = c) - 1

RECURSIVE DecimalValue(_)
DecimalValue(digits) ==
    IF digits = <<>> THEN 0
    ELSE 10 * DecimalValue(SubSeq(digits, 1, Len(digits) - 1))
         + DigitValue(digits[Len(digits)])

ParseFloat(text) ==
    LET t == strip(text)
        signed == t # <<>> /\ Head(t) \in {"+", "-"}
        digits == IF signed THEN Tail(t) ELSE t
    IN  IF digits = <<>> THEN ValueError
        ELSE IF lower(digits) = <<"n","a","n">> THEN NaN
        ELSE IF \A k \in DOMAIN digits : IsDigit(digits[k])
             THEN Float(IF Head(t) = "-" THEN 0 - DecimalValue(digits)
                        ELSE DecimalValue(digits))
        ELSE ValueError

\* start_revenue <= 0: every comparison with NaN is false
NotPositive(x) == IsNumber(x) /\ x.units <= 0

----------------------------------------------------------------------------
(* generate_company_growth.  The running values are kept exactly, in     *)
(* units of 10^-8; the values recorded are rounded to hundredths.        *)

baseline_rate == 2      \* 0.02, in hundredths
cea_rate == 5           \* 0.05, in hundredths

\* round(x, 2) of a running value: to the nearest hundredth, ties to even
Round2(acc) ==
    LET q == acc \div 1000000
        r == acc % 1000000
    IN  IF 2 * r > 1000000 \/ (2 * r = 1000000 /\ q % 2 = 1) THEN q + 1 ELSE q

\* current *= (1.0 + rate)
Compound(acc, rate) == (acc \div 100) * (100 + rate)

\* The loop over YEARS from year k on; the multiplication after the last
\* year changes nothing that is returned.
RECURSIVE GrowthFrom(_, _, _)
GrowthFrom(acc, rate, k) ==
    IF k = Len(YEARS) THEN <<Round2(acc)>>
    ELSE <<Round2(acc)>> \o GrowthFrom(Compound(acc, rate), rate, k + 1)

\* (baseline, with_cea) for a start revenue; round(nan, 2) is nan
generate_company_growth(start_revenue) ==
    IF IsNumber(start_revenue)
    THEN <<GrowthFrom(start_revenue.units * 100000000, baseline_rate, 1),
           GrowthFrom(start_revenue.units * 100000000, cea_rate, 1)>>
    ELSE <<[k \in DOMAIN YEARS |-> NaN], [k \in DOMAIN YEARS |-> NaN]>>

----------------------------------------------------------------------------
(* /api/companies *)

General == <<"G","e","n","e","r","a","l">>

\* (data.get(key) or "") : the value itself when it is truthy
OrEmpty(data, key) ==
    IF key \in DOMAIN data /\ Truthy(data[key]) THEN data[key] ELSE Str(<<>>)

\* Lines 297-300 raise AttributeError when a value given is a number other
\* than 0: it has no strip().
RaisesAttributeError(data) ==
    \E key \in {"name", "sector", "revenue"} : IsNum(OrEmpty(data, key))

\* Lines 298-312: the validated inputs of a request, or the 400 it is given.
Validate(data) ==
    LET name == strip(OrEmpty(data, "name").str)
        sector == strip(OrEmpty(data, "sector").str)
        revenue_raw == strip(OrEmpty(data, "revenue").str)
        start_revenue == ParseFloat(revenue_raw)
    IN  IF name = <<>> \/ revenue_raw = <<>>
        THEN [status |-> 400, body |-> [error |-> "Name and revenue are required."]]
        ELSE IF start_revenue = ValueError \/ NotPositive(start_revenue)
        THEN [status |-> 400, body |-> [error |-> "Revenue must be a positive number."]]
        ELSE [status |-> 0, name |-> name, sector |-> sector,
              start_revenue |-> start_revenue,
              growth |-> generate_company_growth(start_revenue)]

\* Lines 317-325
Company(company_id, valid) ==
    [id |-> company_id,
     name |-> valid.name,
     sector |-> IF valid.sector # <<>> THEN valid.sector ELSE General,
     startRevenue |-> valid.start_revenue,
     years |-> YEARS,
     baseline |-> valid.growth[1],
     withCEA |-> valid.growth[2]]

\* COMPANIES[company_id] = company
Store(company_id, company) ==
    COMPANIES' = [k \in DOMAIN COMPANIES \cup {company_id} |->
                    IF k = company_id THEN company ELSE COMPANIES[k]]

\* list(COMPANIES.values()): the companies in the order their keys were
\* first inserted.  Under sequential handling keys are inserted in
\* increasing order.
Values(d) ==
    LET RECURSIVE Rest(_)
        Rest(keys) ==
            IF keys = {} THEN <<>>
            ELSE LET k == CHOOSE k \in keys : \A j \in keys : k <= j
                 IN  <<d[k]>> \o Rest(keys \ {k})
    IN  Rest(DOMAIN d)

\* Mutant of Reject: the id is taken before the request is validated.
Reject_ConsumesId(invalid) ==
    /\ response' = invalid
    /\ NEXT_COMPANY_ID' = NEXT_COMPANY_ID + 1
    /\ UNCHANGED COMPANIES

\* Lines 302-310: a request that fails validation is answered 400.
Reject(invalid) ==
    /\ response' = invalid
    /\ UNCHANGED <<COMPANIES, NEXT_COMPANY_ID>>

\* Mutant of Create: lines 314 and 315 swapped, the id is read after the
\* counter was incremented.
Create_IdAfterIncrement(valid) ==
    LET company_id == NEXT_COMPANY_ID + 1
    IN  /\ NEXT_COMPANY_ID' = NEXT_COMPANY_ID + 1
        /\ Store(company_id, Company(company_id, valid))
        /\ response' = [status |-> 201, body |-> Company(company_id, valid)]

\* Lines 314-328, handled without interleaving
Create(valid) ==
    LET company_id == NEXT_COMPANY_ID
    IN  /\ NEXT_COMPANY_ID' = NEXT_COMPANY_ID + 1
        /\ Store(company_id, Company(company_id, valid))
        /\ response' = [status |-> 201, body |-> Company(company_id, valid)]

\* POST /api/companies
api_companies_post(data) ==
    IF RaisesAttributeError(data)
    THEN /\ response' = [status |-> 500, body |-> [error |-> "AttributeError"]]
         /\ UNCHANGED <<COMPANIES, NEXT_COMPANY_ID>>
    ELSE LET valid == Validate(data)
         IN  IF valid.status = 400 THEN Reject(valid) ELSE Create(valid)

\* GET /api/companies
api_companies_get ==
    /\ response' = [status |-> 200, body |-> [companies |-> Values(COMPANIES)]]
    /\ UNCHANGED <<COMPANIES, NEXT_COMPANY_ID>>

NameTexts == { <<" ">>, <<" ","A","c","m","e"," ">> }
CompanySectorTexts == { <<"W","a","s","t","e">> }
RevenueValues ==
    { Str(<<" ">>), Str(<<" ","1","2"," ">>), Str(<<"-","5">>), Str(<<"0">>),
      Str(<<"a","b","c">>), Str(<<"n","a","n">>), Num(0), Num(500) }

CompanyBodies ==
    { b \in Bodies({"name", "sector", "revenue"},
                   {Str(t) : t \in NameTexts \cup CompanySectorTexts} \cup RevenueValues) :
        /\ "name" \in DOMAIN b => b["name"] \in {Str(t) : t \in NameTexts}
        /\ "sector" \in DOMAIN b => b["sector"] \in {Str(t) : t \in CompanySectorTexts}
        /\ "revenue" \in DOMAIN b => b["revenue"] \in RevenueValues }

\* The history of creations, kept from the responses alone.
Issued(h, resp) == IF resp.status = 201 THEN Append(h, resp.body.id) ELSE h

PostCompanyOf(bodies) ==
    \E data \in bodies :
        /\ NEXT_COMPANY_ID <= MaxPosts
        /\ api_companies_post(data)
        /\ request' = [op |-> "POST /api/companies", data |-> data]
        /\ issued' = Issued(issued, response')
        /\ UNCHANGED <<CHART_DATA, LEARNING_USAGE, ALERTS, answered, pc, local>>

GetCompanies ==
    /\ api_companies_get
    /\ request' = [op |-> "GET /api/companies"]
    /\ UNCHANGED <<CHART_DATA, LEARNING_USAGE, ALERTS, answered, issued, pc, local>>

PostCompany == PostCompanyOf(CompanyBodies)

NextCompanies == PostCompany \/ GetCompanies

SpecCompanies == Init /\ [][NextCompanies]_vars

----------------------------------------------------------------------------
(* POST /api/companies on two workers with no lock: a worker may be       *)
(* suspended between any two statements of lines 314-328, and inside      *)
(* NEXT_COMPANY_ID += 1 between its read and its write.  Lines 297-312    *)
(* touch no shared state and are one step.                                *)

InFlight == {w \in Workers : pc[w] # "idle"}

\* The requests of the interleaved runs give a name and a revenue only.
RaceBodies == {b \in CompanyBodies : DOMAIN b = {"name", "revenue"}}

\* Lines 297-312
Begin(w) ==
    \E data \in RaceBodies :
        /\ pc[w] = "idle"
        /\ Len(issued) + Cardinality(InFlight) < MaxRacePosts
        /\ request' = [op |-> "POST /api/companies", data |-> data]
        /\ IF RaisesAttributeError(data)
           THEN /\ response' = [status |-> 500, body |-> [error |-> "AttributeError"]]
                /\ UNCHANGED <<pc, local>>
           ELSE LET valid == Validate(data)
                IN  IF valid.status = 400
                    THEN /\ response' = valid
                         /\ UNCHANGED <<pc, local>>
                    ELSE /\ pc' = [pc EXCEPT ![w] = "read"]
                         /\ local' = [local EXCEPT ![w] = [valid |-> valid]]
                         /\ UNCHANGED response
        /\ UNCHANGED <<CHART_DATA, LEARNING_USAGE, ALERTS, COMPANIES, NEXT_COMPANY_ID,
                       answered, issued>>

\* Line 314: company_id = NEXT_COMPANY_ID
ReadId(w) ==
    /\ pc[w] = "read"
    /\ local' = [local EXCEPT ![w] =
                    [valid |-> local[w].valid, company_id |-> NEXT_COMPANY_ID]]
    /\ pc' = [pc EXCEPT ![w] = "load"]
    /\ UNCHANGED <<CHART_DATA, LEARNING_USAGE, ALERTS, COMPANIES, NEXT_COMPANY_ID,
                   request, response, answered, issued>>

\* Line 315, the read of NEXT_COMPANY_ID += 1
LoadCounter(w) ==
    /\ pc[w] = "load"
    /\ local' = [local EXCEPT ![w] =
                    [valid |-> local[w].valid, company_id |-> local[w].company_id,
                     loaded |-> NEXT_COMPANY_ID]]
    /\ pc' = [pc EXCEPT ![w] = "store"]
    /\ UNCHANGED <<CHART_DATA, LEARNING_USAGE, ALERTS, COMPANIES, NEXT_COMPANY_ID,
                   request, response, answered, issued>>

\* Line 315, the write of NEXT_COMPANY_ID += 1
StoreCounter(w) ==
    /\ pc[w] = "store"
    /\ NEXT_COMPANY_ID' = local[w].loaded + 1
    /\ pc' = [pc EXCEPT ![w] = "save"]
    /\ UNCHANGED <<CHART_DATA, LEARNING_USAGE, ALERTS, COMPANIES, local,
                   request, response, answered, issued>>

\* Mutant of Save: the company is stored under the counter's last value and
\* not under the id the worker read.
Save_KeyFromCounter(w) ==
    /\ pc[w] = "save"
    /\ Store(NEXT_COMPANY_ID - 1, Company(local[w].company_id, local[w].valid))
    /\ response' = [status |-> 201, body |-> Company(local[w].company_id, local[w].valid)]
    /\ issued' = Issued(issued, response')
    /\ pc' = [pc EXCEPT ![w] = "idle"]
    /\ local' = [local EXCEPT ![w] = [op |-> "none"]]
    /\ UNCHANGED <<CHART_DATA, LEARNING_USAGE, ALERTS, NEXT_COMPANY_ID, request, answered>>

\* Lines 317-328
Save(w) ==
    /\ pc[w] = "save"
    /\ Store(local[w].company_id, Company(local[w].company_id, local[w].valid))
    /\ response' = [status |-> 201, body |-> Company(local[w].company_id, local[w].valid)]
    /\ issued' = Issued(issued, response')
    /\ pc' = [pc EXCEPT ![w] = "idle"]
    /\ local' = [local EXCEPT ![w] = [op |-> "none"]]
    /\ UNCHANGED <<CHART_DATA, LEARNING_USAGE, ALERTS, NEXT_COMPANY_ID, request, answered>>

NextRace ==
    \E w \in Workers :
        Begin(w) \/ ReadId(w) \/ LoadCounter(w) \/ StoreCounter(w) \/ Save(w)

SpecRace == Init /\ [][NextRace]_vars

----------------------------------------------------------------------------
(* Direct calls of update_learning *)

SectorArgs == DOMAIN InitialChartData \cup {robotics, upper(waste), <<>>}

CallUpdateLearning ==
    \E sector \in SectorArgs :
        /\ TotalUsage < MaxSteps
        /\ update_learning(sector)
        /\ request' = [op |-> "update_learning", sector |-> sector]
        /\ response' = [status |-> 0]
        /\ UNCHANGED <<ALERTS, COMPANIES, NEXT_COMPANY_ID, answered, issued, pc, local>>

NextLearn == CallUpdateLearning

SpecLearn == Init /\ [][NextLearn]_vars

----------------------------------------------------------------------------
(* The server handling one request at a time: every API route *)

Handled == TotalUsage + Len(ALERTS) + Len(issued)

\* The requests of the whole server: those of /api/cea that name no
\* userType, those of /api/companies that name no sector.
ServerCeaBodies == {b \in CeaBodies : "userType" \notin DOMAIN b}

Next ==
    \/ Handled < MaxRequests /\ PostCeaOf(ServerCeaBodies)
    \/ Handled < MaxRequests /\ PostCompanyOf(RaceBodies)
    \/ GetAlerts
    \/ GetCompanies

Spec == Init /\ [][Next]_vars

----------------------------------------------------------------------------
(* Properties of the learning simulator (SpecLearn) *)

Indexes == 1..Len(YEARS)

WithinTarget(data, k) ==
    IF data.higherBetter
    THEN data.withCEA[k] <= Target(data, k)
    ELSE data.withCEA[k] >= Target(data, k)

\* C1: in every reachable state, for every sector and every index,
\* projectedSeries[i] is not beyond its target: at most
\* min(100, baseline[i] + 20) when higherIsBetter, at least
\* max(0, baseline[i] - 20) otherwise.
C1_NeverBeyondTarget ==
    \A s \in DOMAIN CHART_DATA : \A k \in Indexes : WithinTarget(CHART_DATA[s], k)

\* What the learning step does guarantee: every value other than
\* waste.withCEA[5] (65, target 64) is within its target in every reachable
\* state, and that value never changes.
OnlyWasteStartsBeyondTarget ==
    /\ \A s \in DOMAIN CHART_DATA : \A k \in Indexes :
          (s # waste \/ k # Len(YEARS)) => WithinTarget(CHART_DATA[s], k)
    /\ CHART_DATA[waste].withCEA[Len(YEARS)] = 650

\* The call handled last was update_learning on a sector outside CHART_DATA.
UnknownSectorCall(req) ==
    req.op = "update_learning" /\ req.sector \notin DOMAIN InitialChartData

\* C2: update_learning on a sector name outside the 7 known sectors is a
\* no-op: every usage counter and every sector record is unchanged and no
\* counter entry is created.
C2_UnknownSectorNoOp ==
    [][UnknownSectorCall(request') =>
          /\ CHART_DATA' = CHART_DATA
          /\ LEARNING_USAGE' = LEARNING_USAGE
          /\ DOMAIN LEARNING_USAGE' = DOMAIN InitialChartData]_vars

\* An unknown sector was called after learning steps had been counted.
C2_Witness ==
    /\ UnknownSectorCall(request)
    /\ request.sector = upper(waste)
    /\ LEARNING_USAGE[waste] = 2

\* The value C9 states for index k after one step.
ClaimedStep(data, k) ==
    IF data.higherBetter
    THEN Min(Target(data, k), data.withCEA[k] + Step(data, k))
    ELSE Max(Target(data, k), data.withCEA[k] - Step(data, k))

\* C9: one update_learning call on a known sector sets projectedSeries[i],
\* with step = 0.5 * (i+1)/5, to min(target, old + step) when
\* higherIsBetter and to max(target, old - step) otherwise, and leaves the
\* baseline series unchanged.
C9_StepFormula ==
    [][(request'.op = "update_learning" /\ request'.sector \in DOMAIN CHART_DATA) =>
          LET s == request'.sector
          IN  /\ \A k \in Indexes :
                    CHART_DATA'[s].withCEA[k] = ClaimedStep(CHART_DATA[s], k)
              /\ CHART_DATA'[s].baseline = CHART_DATA[s].baseline]_vars

\* The step formula does hold wherever the old value is within its target.
StepFormulaWithinTarget ==
    [][(request'.op = "update_learning" /\ request'.sector \in DOMAIN CHART_DATA) =>
          LET s == request'.sector
          IN  \A k \in Indexes :
                WithinTarget(CHART_DATA[s], k) =>
                    CHART_DATA'[s].withCEA[k] = ClaimedStep(CHART_DATA[s], k)]_vars

----------------------------------------------------------------------------
(* Properties of the company registry (SpecCompanies, SpecRace) *)

RequiredMessage == "Name and revenue are required."
PositiveMessage == "Revenue must be a positive number."

PostedCompany(req) == req.op = "POST /api/companies"

\* The name of a body is empty after trimming.
EmptyName(data) == "name" \notin DOMAIN data \/ strip(data["name"].str) = <<>>

\* The revenue of a body is given, as a string or as a number, is not empty
\* after trimming and is a number greater than 0.
PositiveRevenue(data) ==
    /\ "revenue" \in DOMAIN data
    /\ IF IsNum(data["revenue"])
       THEN data["revenue"].num > 0
       ELSE LET x == ParseFloat(data["revenue"].str)
            IN  IsNumber(x) /\ x.units > 0

\* C3: a POST /api/companies succeeds with 201 and stores the company if
\* and only if the name is non-empty after trimming and the revenue, given
\* as a string or as a number, parses to a number greater than 0; every
\* other request ends in a 400 with one of the two fixed messages.
C3_AcceptsExactlyValid ==
    PostedCompany(request) =>
        IF ~EmptyName(request.data) /\ PositiveRevenue(request.data)
        THEN /\ response.status = 201
             /\ response.body.id \in DOMAIN COMPANIES
             /\ COMPANIES[response.body.id] = response.body
        ELSE /\ response.status = 400
             /\ response.body.error \in {RequiredMessage, PositiveMessage}

\* The revenue of a body is missing, empty after trimming, not numeric, or
\* a number that is 0 or less.
BadRevenue(data) ==
    \/ "revenue" \notin DOMAIN data
    \/ /\ IsNum(data["revenue"])
       /\ data["revenue"].num <= 0
    \/ /\ IsStr(data["revenue"])
       /\ LET x == ParseFloat(data["revenue"].str)
          IN  x = ValueError \/ NotPositive(x)

FailsValidation(data) == EmptyName(data) \/ BadRevenue(data)

\* C4: a POST /api/companies that fails validation (empty name, empty
\* revenue, non-numeric revenue, revenue <= 0) is not answered 201, and
\* every request that is not answered 201 leaves the registry and the
\* next-id counter exactly as they were.
C4_FailureChangesNothing ==
    [][PostedCompany(request') =>
          /\ FailsValidation(request'.data) => response'.status # 201
          /\ response'.status # 201 =>
                COMPANIES' = COMPANIES /\ NEXT_COMPANY_ID' = NEXT_COMPANY_ID]_vars

\* A request with a revenue of 0 or less was rejected after two creations.
C4_Witness ==
    /\ PostedCompany(request)
    /\ ~EmptyName(request.data)
    /\ "revenue" \in DOMAIN request.data
    /\ request.data["revenue"] = Str(<<"-","5">>)
    /\ response.status = 400
    /\ NEXT_COMPANY_ID = 3
    /\ DOMAIN COMPANIES = {1, 2}

\* C5: under sequential handling the k-th successful creation has id k, no
\* id is reused, and the registry's keys are exactly 1..NEXT_COMPANY_ID-1
\* with each stored company's id equal to its key.
C5_SequentialIds ==
    /\ \A k \in DOMAIN issued : issued[k] = k
    /\ NEXT_COMPANY_ID = Len(issued) + 1
    /\ DOMAIN COMPANIES = 1..(NEXT_COMPANY_ID - 1)
    /\ \A k \in DOMAIN COMPANIES : COMPANIES[k].id = k

\* Three companies were created and the last response is the third.
C5_Witness ==
    /\ Len(issued) = 3
    /\ response.status = 201
    /\ response.body.id = 3
    /\ response.body.sector = General

Range(f) == {f[k] : k \in DOMAIN f}

DuplicateIssued == \E i, j \in DOMAIN issued : i < j /\ issued[i] = issued[j]

\* C10: with two interleaved handlers and no lock, two successful creations
\* can be given the same id, and then the registry holds fewer companies
\* than 201 responses were issued: the registry keeps one company per
\* distinct id issued.
C10_RegistryKeepsOnePerId ==
    /\ DOMAIN COMPANIES = Range(issued)
    /\ \A k \in DOMAIN COMPANIES : COMPANIES[k].id = k
    /\ DuplicateIssued => Cardinality(DOMAIN COMPANIES) < Len(issued)

\* Both workers have answered 201 with the same id; one company is lost.
C10_Witness ==
    /\ \A w \in Workers : pc[w] = "idle"
    /\ issued = <<1, 1>>
    /\ Cardinality(DOMAIN COMPANIES) = 1

----------------------------------------------------------------------------
(* Properties of /api/cea and the alert log (SpecCea, Spec) *)

PostedCea(req) == req.op = "POST /api/cea"

\* The problem text of a body is non-empty after trimming and suspicious.
SuspiciousProblem(data) ==
    /\ strip(GetText(data, "problem")) # <<>>
    /\ is_suspicious(strip(GetText(data, "problem")))

Refusal(resp) ==
    /\ resp.status = 200
    /\ resp.body = [suspicious |-> TRUE,
                    message |-> "I cannot assist with harmful, violent, or illegal actions."]

\* The step appends exactly one alert, and changes no counter and no record.
AppendsOneAlert ==
    /\ Len(ALERTS') = Len(ALERTS) + 1
    /\ SubSeq(ALERTS', 1, Len(ALERTS)) = ALERTS
    /\ LEARNING_USAGE' = LEARNING_USAGE
    /\ CHART_DATA' = CHART_DATA

\* C6 as stated: a suspicious POST /api/cea is answered with the refusal and
\* appends exactly one alert carrying the request's sector, userType and
\* problem, known sector or not, changing no counter and no sector record.
C6_AlertCarriesRequestFields ==
    [][(PostedCea(request') /\ SuspiciousProblem(request'.data)) =>
          /\ Refusal(response')
          /\ AppendsOneAlert
          /\ LET alert == ALERTS'[Len(ALERTS')]
             IN  /\ alert.sector = GetText(request'.data, "sector")
                 /\ alert.userType = GetText(request'.data, "userType")
                 /\ alert.problem = GetText(request'.data, "problem")]_vars

\* C6 amended: the alert carries the request's sector and userType in lower
\* case and its problem text trimmed.
C6_AlertCarriesNormalisedFields ==
    [][(PostedCea(request') /\ SuspiciousProblem(request'.data)) =>
          /\ Refusal(response')
          /\ AppendsOneAlert
          /\ LET alert == ALERTS'[Len(ALERTS')]
             IN  /\ alert.sector = lower(GetText(request'.data, "sector"))
                 /\ alert.userType = lower(GetText(request'.data, "userType"))
                 /\ alert.problem = strip(GetText(request'.data, "problem"))
                 /\ alert.time \in Times]_vars

\* A suspicious request naming an unknown sector was refused and logged,
\* after a request for a known sector had been answered.
C6_Witness ==
    /\ PostedCea(request)
    /\ SuspiciousProblem(request.data)
    /\ GetText(request.data, "sector") = robotics
    /\ Refusal(response)
    /\ Len(ALERTS) = 1
    /\ ALERTS[1].sector = robotics
    /\ TotalUsage = 1

Answer(resp) ==
    resp.status = 200 /\ "suspicious" \in DOMAIN resp.body /\ ~resp.body.suspicious

\* C7: for every sector the usage counter equals the number of requests for
\* it that were answered with the non-suspicious 200; rejected and refused
\* requests change no counter; and learningUsage in an answer is the
\* counter after counting that request.
C7_UsageCountsAnswers ==
    /\ DOMAIN LEARNING_USAGE = DOMAIN InitialChartData
    /\ DOMAIN answered \subseteq DOMAIN LEARNING_USAGE
    /\ \A s \in DOMAIN LEARNING_USAGE : LEARNING_USAGE[s] = Count(answered, s)
    /\ (PostedCea(request) /\ Answer(response)) =>
          /\ response.body.sector = lower(GetText(request.data, "sector"))
          /\ response.body.learningUsage = LEARNING_USAGE[response.body.sector]
          /\ response.body.learningUsage >= 1

\* The first answer for waste, asked as "Waste", after a refused request for
\* the same sector.
C7_Witness ==
    /\ PostedCea(request)
    /\ Answer(response)
    /\ GetText(request.data, "sector") = <<"W","a","s","t","e">>
    /\ response.body.learningUsage = 1
    /\ Len(ALERTS) = 1
    /\ ALERTS[1].sector = waste

\* C8: the alert log is append-only: every alert recorded stays at its
\* position with its contents, new alerts are added at the end, and
\* GET /api/alerts returns all alerts in insertion order and changes no state.
C8_AlertsAppendOnly ==
    [][/\ Len(ALERTS') >= Len(ALERTS)
       /\ SubSeq(ALERTS', 1, Len(ALERTS)) = ALERTS
       /\ request'.op = "GET /api/alerts" =>
             /\ response' = [status |-> 200, body |-> [alerts |-> ALERTS]]
             /\ UNCHANGED <<CHART_DATA, LEARNING_USAGE, ALERTS, COMPANIES,
                            NEXT_COMPANY_ID>>]_vars

\* GET /api/alerts returned two different alerts, the older one first.
C8_Witness ==
    /\ request.op = "GET /api/alerts"
    /\ Len(response.body.alerts) = 2
    /\ response.body.alerts[1].sector = robotics
    /\ response.body.alerts[2].sector = waste

====
